---- MODULE Spec2Model ----
(***************************************************************************)
(* Model of streamlit_chat.py: the history trimmer                         *)
(* (trim_conversation_history), the SSE decoder (stream_response) and the  *)
(* chat turn of main() that drives them.                                   *)
(*                                                                         *)
(* A Python str is modelled as a sequence of tokens (TLA+ strings) taken   *)
(* from a prefix-free vocabulary, so that equality of token sequences is   *)
(* equality of the strings, startswith(p) for a one-token prefix p is a    *)
(* test of the first token, and len() is the sum of the tokens' lengths.   *)
(***************************************************************************)
EXTENDS Integers, Sequences, FiniteSets, TLC

VARIABLES
    \* ---- trim_conversation_history called on its own ----
    t_pc,            \* "call" before the call, "returned" after it
    t_messages,      \* argument messages
    t_max_messages,  \* argument max_messages
    t_max_tokens,    \* argument max_tokens
    t_result,        \* the returned list
    \* ---- main(): the chat turn ----
    messages,        \* st.session_state.messages
    main_pc,         \* "idle" (waiting for chat_input) or "streaming"
    full_response,   \* main's accumulator of the chunks
    turn,            \* number of prompts submitted in the part of the session looked at
    \* ---- stream_response(): the generator ----
    pc,              \* "none", "created", "reading", "finished"
    request,         \* the messages of the request body (trimmed_messages)
    conn,            \* the HTTP response: "none", "open", "closed"
    data_lines,      \* the accumulator of the current event
    \* ---- the transport of the current call ----
    http_status,     \* the status line the server answered with, NoStatus before
    resp_lines,      \* the raw lines of the response body, in order
    resp_pos,        \* how many of them readline() has returned
    \* ---- history of the current call (what the caller saw) ----
    delivered,       \* the fragments yielded to the caller, in order
    emit_at,         \* for each fragment, the number of the readline call it followed
    ending,          \* how the call ended ("abandoned": closed by the caller), "none" while it runs
    runs_log         \* the completed calls: what each delivered and how it ended

vars == << t_pc, t_messages, t_max_messages, t_max_tokens, t_result,
           messages, main_pc, full_response, turn,
           pc, request, conn, data_lines,
           http_status, resp_lines, resp_pos, delivered, emit_at, ending, runs_log >>

trimVars == << t_pc, t_messages, t_max_messages, t_max_tokens, t_result >>
chatVars == << messages, main_pc, full_response, turn,
               pc, request, conn, data_lines,
               http_status, resp_lines, resp_pos, delivered, emit_at, ending, runs_log >>

\* ------------------------------------------------------------------ bounds
\* Longest message list handed to trim_conversation_history on its own.
MaxMsgs == 4
\* Most lines in a response body handed to the decoder on its own.
MaxLines == 4
\* Most lines in a response body within a chat session.
MaxChatLines == 2
\* Most prompts submitted in one session.
MaxTurns == 2

\* ------------------------------------------------------- program constants
MAX_CONTEXT_MESSAGES == 10
CONTEXT_WINDOW_TOKENS == 4000

NoStatus == [code |-> 0, reason |-> "", body |-> << >>]

\* --------------------------------------------------------------- Python str
\* The one-character string U+274C (the cross mark that opens every error text).
CROSS == "U+274C"
CharLen(token) == IF token = CROSS THEN 1 ELSE Len(token)

Min(a, b) == IF a < b THEN a ELSE b
Max(a, b) == IF a > b THEN a ELSE b

\* len(text): the number of characters of a str.
RECURSIVE StrLen(_)
StrLen(text) == IF text = << >> THEN 0 ELSE CharLen(Head(text)) + StrLen(Tail(text))

\* The slice taken from the wrong end: s[:len(s) - i] in place of s[i:].
PySliceFrom_takesPrefix(s, start) ==
    LET n == Len(s)
        i == IF start < 0 THEN Max(n + start, 0) ELSE Min(start, n)
    IN  SubSeq(s, 1, n - i)

\* s[start:] of Python, for a list or a str given as a sequence: a negative
\* start counts from the end and is clamped at 0, a start past the end gives
\* the empty sequence; s[-0:] is s[0:], the whole sequence.
PySliceFrom(s, start) ==
    LET n == Len(s)
        i == IF start < 0 THEN Max(n + start, 0) ELSE Min(start, n)
    IN  SubSeq(s, i + 1, n)

\* ------------------------------------------------ trim_conversation_history
estimate_tokens(text) == StrLen(text) \div 4

IsRetained(msg) == msg.role \in {"system", "developer"}
IsConversation(msg) == ~IsRetained(msg)

\* The two lists the loop at lines 52-56 builds.
system_messages(msgs) == SelectSeq(msgs, IsRetained)
conversation_messages(msgs) == SelectSeq(msgs, IsConversation)

RECURSIVE total_tokens(_)
total_tokens(msgs) ==
    IF msgs = << >> THEN 0
    ELSE estimate_tokens(Head(msgs).content) + total_tokens(Tail(msgs))

\* Lines 61-63: keep_count = max_messages, made even by subtracting one.
keep_count(max_messages) ==
    IF max_messages % 2 = 1 THEN max_messages - 1 ELSE max_messages

\* The count step slicing from the wrong end: the oldest keep_count kept.
CountTrim_keepsOldest(conv, max_messages) ==
    IF Len(conv) > max_messages
    THEN SubSeq(conv, 1, Min(Max(keep_count(max_messages), 0), Len(conv)))
    ELSE conv

\* Lines 59-64.
CountTrim(conv, max_messages) ==
    IF Len(conv) > max_messages
    THEN PySliceFrom(conv, 0 - keep_count(max_messages))
    ELSE conv

\* The while loop dropping one message per iteration.
RECURSIVE TokenTrim_dropsOne(_, _, _)
TokenTrim_dropsOne(sys, conv, max_tokens) ==
    IF total_tokens(sys \o conv) > max_tokens /\ Len(conv) > 2
    THEN TokenTrim_dropsOne(sys, PySliceFrom(conv, 1), max_tokens)
    ELSE conv

\* Lines 67-75: the while loop, one pair per iteration.
RECURSIVE TokenTrim(_, _, _)
TokenTrim(sys, conv, max_tokens) ==
    IF total_tokens(sys \o conv) > max_tokens /\ Len(conv) > 2
    THEN TokenTrim(sys, PySliceFrom(conv, 2), max_tokens)
    ELSE conv

trim_conversation_history(msgs, max_messages, max_tokens) ==
    IF msgs = << >> THEN msgs
    ELSE LET sys  == system_messages(msgs)
             conv == CountTrim(conversation_messages(msgs), max_messages)
         IN  sys \o TokenTrim(sys, conv, max_tokens)

\* ---- inputs of the trimmer on its own
Roles == {"system", "developer", "user", "assistant"}
\* A content of 3 characters (0 estimated tokens) and one of 8 (2 tokens).
TrimContents == { <<"pqr">>, <<"wxyz", "efgh">> }
TrimMessages == [role : Roles, content : TrimContents]
TrimInputs == UNION { [1..n -> TrimMessages] : n \in 0..MaxMsgs }
\* max_messages: below zero, zero, odd and even, up to one past the longest list.
TrimCounts == (0 - 2) .. (MaxMsgs + 1)
\* max_tokens: nothing fits, one long message fits, everything fits.
TrimBudgets == {0, 2, CONTEXT_WINDOW_TOKENS}

ChatIdle ==
    /\ messages = << >>
    /\ main_pc = "idle"
    /\ full_response = << >>
    /\ turn = 0
    /\ pc = "none"
    /\ request = << >>
    /\ conn = "none"
    /\ data_lines = << >>
    /\ http_status = NoStatus
    /\ resp_lines = << >>
    /\ resp_pos = 0
    /\ delivered = << >>
    /\ emit_at = << >>
    /\ ending = "none"
    /\ runs_log = {}

InitTrim ==
    /\ t_pc = "call"
    /\ t_messages \in TrimInputs
    /\ t_max_messages \in TrimCounts
    /\ t_max_tokens \in TrimBudgets
    /\ t_result = << >>
    /\ ChatIdle

CallTrim ==
    /\ t_pc = "call"
    /\ t_result' = trim_conversation_history(t_messages, t_max_messages, t_max_tokens)
    /\ t_pc' = "returned"
    /\ UNCHANGED << t_messages, t_max_messages, t_max_tokens >>
    /\ UNCHANGED chatVars

NextTrim == CallTrim

SpecTrim == InitTrim /\ [][NextTrim]_vars

\* ------------------------------------------------------ claims: the trimmer
\* The last k entries of a sequence, k >= 0, as the specification means it.
LastK(s, k) == SubSeq(s, Len(s) - Min(k, Len(s)) + 1, Len(s))

\* The conversation strictly alternates user/assistant, starting with user.
Alternates(conv) ==
    \A i \in 1..Len(conv) :
        conv[i].role = (IF i % 2 = 1 THEN "user" ELSE "assistant")

RoundDownEven(k) == k - (k % 2)

\* C4: for an input whose conversation strictly alternates user/assistant
\* starting with user (of any length, even or odd), the conversation part of
\* the returned list never starts with an assistant message.
C4_NeverStartsWithAssistant ==
    (t_pc = "returned" /\ Alternates(conversation_messages(t_messages)))
        => LET conv == conversation_messages(t_result)
           IN  conv = << >> \/ Head(conv).role # "assistant"

\* C5: for max_messages >= 0 and a budget under which no token trimming
\* applies, an input with more than max_messages conversation messages comes
\* back with exactly its last k conversation messages, k = max_messages
\* rounded down to an even number, so with at most max_messages of them.
C5_KeepsExactlyLastK ==
    (/\ t_pc = "returned"
     /\ t_max_messages >= 0
     /\ total_tokens(t_messages) <= t_max_tokens
     /\ Len(conversation_messages(t_messages)) > t_max_messages)
        => /\ conversation_messages(t_result)
                = LastK(conversation_messages(t_messages), RoundDownEven(t_max_messages))
           /\ Len(conversation_messages(t_result)) <= t_max_messages

\* C6: the result is every system/developer message of the input, in the
\* original order, followed by a contiguous suffix of the input's
\* conversation messages in their original order.
C6_RetainedThenSuffix ==
    t_pc = "returned"
        => \E d \in 0..Len(conversation_messages(t_messages)) :
              t_result = system_messages(t_messages)
                           \o SubSeq(conversation_messages(t_messages), d + 1,
                                     Len(conversation_messages(t_messages)))

\* A call that kept a retained message and dropped part of the conversation.
C6_Witness ==
    /\ t_pc = "returned"
    /\ system_messages(t_messages) # << >>
    /\ Len(conversation_messages(t_result)) > 0
    /\ Len(conversation_messages(t_result)) < Len(conversation_messages(t_messages))
    /\ \E i \in 1..Len(t_messages) : \E j \in 1..Len(t_messages) :
          i < j /\ IsConversation(t_messages[i]) /\ IsRetained(t_messages[j])

\* ------------------------------------------------------------ str helpers
Whitespace == {" ", "\t", "\n", "\r"}

\* The prefix looked for anywhere in the line ("prefix in line").
StartsWith_anywhere(text, prefix) == \E i \in 1..Len(text) : text[i] = prefix

\* line.startswith(prefix), prefix one token of the vocabulary.
StartsWith(text, prefix) == text # << >> /\ Head(text) = prefix

\* text[n:] for a str: drops the tokens that make up its first n characters.
RECURSIVE DropChars(_, _)
DropChars(text, n) ==
    IF n <= 0 \/ text = << >> THEN text
    ELSE DropChars(Tail(text), n - CharLen(Head(text)))

\* str.lstrip(): drops every leading whitespace character.
RECURSIVE lstrip(_)
lstrip(text) ==
    IF text # << >> /\ Head(text) \in Whitespace THEN lstrip(Tail(text)) ELSE text

\* str.rstrip("\r\n"): drops every trailing CR and LF.
RECURSIVE rstrip_crlf(_)
rstrip_crlf(text) ==
    IF text # << >> /\ text[Len(text)] \in {"\r", "\n"}
    THEN rstrip_crlf(SubSeq(text, 1, Len(text) - 1))
    ELSE text

\* Only the last part taken as the payload (data_lines[-1]).
join_lastOnly(sep, parts) == IF parts = << >> THEN << >> ELSE parts[Len(parts)]

\* sep.join(parts).
RECURSIVE join(_, _)
join(sep, parts) ==
    IF parts = << >> THEN << >>
    ELSE IF Len(parts) = 1 THEN parts[1]
    ELSE parts[1] \o <<sep>> \o join(sep, Tail(parts))

\* Whether token occurs in text.
Occurs(token, text) == \E i \in 1..Len(text) : text[i] = token

\* Whether part is a contiguous piece of text.
ContainsText(text, part) ==
    \E i \in 0..(Len(text) - Len(part)) : SubSeq(text, i + 1, i + Len(part)) = part

\* ---------------------------------------------------------------- json.loads
\* JSON values, tagged by Python type.
JNull == [t |-> "NoneType"]
JNum(n) == [t |-> "int", n |-> n]
JStr(s) == [t |-> "str", s |-> s]
JList(items) == [t |-> "list", items |-> items]
JObj(fields) == [t |-> "dict", fields |-> fields]

\* An OpenAI-style chunk whose choices[0].delta.content is the given value.
Chunk(content) ==
    JObj([choices |-> JList(<< JObj([delta |-> JObj([content |-> content])]) >>)])

\* What str(URLError(reason)) gives.
URLErrorText(reason) == <<"<urlopen error ", reason, ">">>

\* Line 160: f"(cross) Connection error: {e}".
URLErrorFragment(reason) ==
    <<CROSS, " ", "Connection", " ", "error:", " ">> \o URLErrorText(reason)

\* The JSON texts of the model (the payloads a server may send), each with
\* the value json.loads gives for it. Any other text is not JSON.
DOC_HI           == "{\"choices\":[{\"delta\":{\"content\":\"Hi\"}}]}"
DOC_YO           == "{\"choices\":[{\"delta\":{\"content\":\"yo\"}}]}"
DOC_CROSS        == "{\"choices\":[{\"delta\":{\"content\":\"U+274C Connection error: <urlopen error refused>\"}}]}"
DOC_EMPTY_TEXT   == "{\"choices\":[{\"delta\":{\"content\":\"\"}}]}"
DOC_NULL_TEXT    == "{\"choices\":[{\"delta\":{\"content\":null}}]}"
DOC_NO_CONTENT   == "{\"choices\":[{\"delta\":{}}]}"
DOC_NULL_DELTA   == "{\"choices\":[{\"delta\":null}]}"
DOC_NO_DELTA     == "{\"choices\":[{}]}"
DOC_INT_CHOICE   == "{\"choices\":[5]}"
DOC_NO_CHOICE    == "{\"choices\":[]}"
DOC_NULL_CHOICES == "{\"choices\":null}"
DOC_DICT_CHOICES == "{\"choices\":{\"a\":null}}"
DOC_STR_CHOICES  == "{\"choices\":\"abc\"}"
DOC_EMPTY_OBJ    == "{}"
DOC_NULL         == "null"
DOC_INT          == "7"
DOC_STR          == "\"abc\""
DOC_LIST         == "[\"choices\"]"

JsonValue(text) ==
    CASE text = DOC_HI           -> Chunk(JStr(<<"Hi">>))
      [] text = DOC_YO           -> Chunk(JStr(<<"yo">>))
      [] text = DOC_CROSS        -> Chunk(JStr(URLErrorFragment("refused")))
      [] text = DOC_EMPTY_TEXT   -> Chunk(JStr(<< >>))
      [] text = DOC_NULL_TEXT    -> Chunk(JNull)
      [] text = DOC_NO_CONTENT   -> JObj([choices |-> JList(<< JObj([delta |-> JObj(<< >>)]) >>)])
      [] text = DOC_NULL_DELTA   -> JObj([choices |-> JList(<< JObj([delta |-> JNull]) >>)])
      [] text = DOC_NO_DELTA     -> JObj([choices |-> JList(<< JObj(<< >>) >>)])
      [] text = DOC_INT_CHOICE   -> JObj([choices |-> JList(<< JNum(5) >>)])
      [] text = DOC_NO_CHOICE    -> JObj([choices |-> JList(<< >>)])
      [] text = DOC_NULL_CHOICES -> JObj([choices |-> JNull])
      [] text = DOC_DICT_CHOICES -> JObj([choices |-> JObj([a |-> JNull])])
      [] text = DOC_STR_CHOICES  -> JObj([choices |-> JStr(<<"abc">>)])
      [] text = DOC_EMPTY_OBJ    -> JObj(<< >>)
      [] text = DOC_NULL         -> JNull
      [] text = DOC_INT          -> JNum(7)
      [] text = DOC_STR          -> JStr(<<"abc">>)
      [] text = DOC_LIST         -> JList(<< JStr(<<"choices">>) >>)

JsonTexts ==
    { DOC_HI, DOC_YO, DOC_CROSS, DOC_EMPTY_TEXT, DOC_NULL_TEXT, DOC_NO_CONTENT,
      DOC_NULL_DELTA, DOC_NO_DELTA, DOC_INT_CHOICE, DOC_NO_CHOICE, DOC_NULL_CHOICES,
      DOC_DICT_CHOICES, DOC_STR_CHOICES, DOC_EMPTY_OBJ, DOC_NULL, DOC_INT, DOC_STR,
      DOC_LIST }

\* The characters of a payload that json.loads looks at: the whitespace
\* between JSON tokens is skipped (no token of the vocabulary splits a
\* string literal), the rest is read as one text.
RECURSIVE Squeeze(_)
Squeeze(text) ==
    IF text = << >> THEN ""
    ELSE IF Head(text) \in Whitespace THEN Squeeze(Tail(text))
    ELSE Head(text) \o Squeeze(Tail(text))

\* json.loads(payload): the value, or JSONDecodeError.
json_loads(payload) ==
    IF Squeeze(payload) \in JsonTexts
    THEN [ok |-> TRUE, value |-> JsonValue(Squeeze(payload))]
    ELSE [ok |-> FALSE, value |-> JNull]

\* ------------------------------------------- Python operators on the values
\* key in container: TypeError unless the container is a dict, list or str.
Iterable(v) == v.t \in {"dict", "list", "str"}

PyIn(key, v) ==
    CASE v.t = "dict" -> key \in DOMAIN v.fields
      [] v.t = "list" -> \E i \in 1..Len(v.items) :
                            v.items[i].t = "str" /\ v.items[i].s = <<key>>
      [] v.t = "str"  -> Occurs(key, v.s)

\* len(v): TypeError unless v is a dict, list or str.
PyLen(v) ==
    CASE v.t = "dict" -> Cardinality(DOMAIN v.fields)
      [] v.t = "list" -> Len(v.items)
      [] v.t = "str"  -> StrLen(v.s)

\* if v: the truth value of a JSON value.
PyTruthy(v) ==
    CASE v.t = "NoneType" -> FALSE
      [] v.t = "int"      -> v.n # 0
      [] OTHER            -> PyLen(v) > 0

\* What lines 136-143 do with the parsed value: yield a content, fall
\* through, or raise.
Yields(content) == [kind |-> "yield", content |-> content, exc |-> ""]
Skips == [kind |-> "skip", content |-> << >>, exc |-> ""]
Raises(exc) == [kind |-> "raise", content |-> << >>, exc |-> exc]

NotIterable(v) == "argument of type '" \o v.t \o "' is not iterable"
NoLen(v) == "object of type '" \o v.t \o "' has no len()"
BadIndex(v) == v.t \o " indices must be integers"

\* Lines 140-143: choice is a dict that has "delta". The contents of the
\* model's documents are str or null, so a truthy content is a str.
ExtractDelta(delta) ==
    IF ~Iterable(delta) THEN Raises(NotIterable(delta))
    ELSE IF ~PyIn("content", delta) THEN Skips
    ELSE IF delta.t # "dict" THEN Raises(BadIndex(delta))
    ELSE IF ~PyTruthy(delta.fields.content) THEN Skips
    ELSE CASE delta.fields.content.t = "str" -> Yields(delta.fields.content.s)

\* Lines 139-140.
ExtractChoice(choice) ==
    IF ~Iterable(choice) THEN Raises(NotIterable(choice))
    ELSE IF ~PyIn("delta", choice) THEN Skips
    ELSE IF choice.t # "dict" THEN Raises(BadIndex(choice))
    ELSE ExtractDelta(choice.fields.delta)

\* Lines 138-139.
ExtractChoices(choices) ==
    IF ~Iterable(choices) THEN Raises(NoLen(choices))
    ELSE IF ~(PyLen(choices) > 0) THEN Skips
    ELSE IF choices.t = "dict" THEN Raises("KeyError: 0")
    ELSE IF choices.t = "str" THEN Skips
    ELSE ExtractChoice(choices.items[1])

\* Lines 138-143.
Extract(data) ==
    IF ~Iterable(data) THEN Raises(NotIterable(data))
    ELSE IF ~PyIn("choices", data) THEN Skips
    ELSE IF data.t # "dict" THEN Raises(BadIndex(data))
    ELSE ExtractChoices(data.fields.choices)

\* The sentinel test left out: [DONE] handled as any other payload.
IsDone_never(payload) == FALSE

\* Line 131.
IsDone(payload) == payload = <<"[DONE]">>

\* Line 154: the value a data: line adds to the accumulator.
DataValue(line) == lstrip(DropChars(line, 5))

\* Line 121: raw.decode("utf-8", errors="replace").rstrip("\r\n").
DecodeLine(raw) == rstrip_crlf(raw)

\* The HTTP error text without the response body.
HTTPErrorFragment_noBody(code, reason, body) ==
    <<CROSS, " ", "Error:", " ", "HTTP", " ", ToString(code), " ", reason, "\n">>

\* Lines 156-162: the texts of the handlers (the URLError text is above).
HTTPErrorFragment(code, reason, body) ==
    <<CROSS, " ", "Error:", " ", "HTTP", " ", ToString(code), " ", reason, "\n">> \o body

UnexpectedErrorFragment(exc) ==
    <<CROSS, " ", "Unexpected", " ", "error:", " ", exc>>

\* ------------------------------------------------------------ the transport
\* The raw lines a response body is made of when the decoder is run on its
\* own: a blank line, a comment, a field other than data, content chunks
\* (with and without the space after the colon, ended by LF or CRLF), the
\* sentinel, a text that is not JSON, and JSON without a usable content.
DecodeRaws ==
    { <<"\n">>,
      <<":", " ", "hb", "\n">>,
      <<"event:", " ", "x", "\n">>,
      <<"data:", " ", DOC_HI, "\n">>,
      <<"data:", DOC_YO, "\r", "\n">>,
      <<"data:", " ", "[DONE]", "\n">>,
      <<"data:", " ", "{bad", "\n">>,
      <<"data:", " ", DOC_NULL, "\n">>,
      <<"data:", " ", DOC_NO_CHOICE, "\n">>,
      <<"data:", " ", DOC_NULL_DELTA, "\n">>,
      <<"data:", " ", DOC_EMPTY_TEXT, "\n">> }

\* The raw lines of a response body within a chat session.
ChatRaws ==
    { <<"\n">>,
      <<"data:", " ", DOC_HI, "\n">>,
      <<"data:", " ", DOC_CROSS, "\n">>,
      <<"data:", " ", "[DONE]", "\n">> }

\* The two data: lines of one event that carries the JSON text DOC_HI cut
\* after "choices": (between two JSON tokens, where json.loads takes the
\* newline of the join for whitespace).
HI_HEAD == "{\"choices\":"
HI_TAIL == "[{\"delta\":{\"content\":\"Hi\"}}]}"

\* The raw lines of a response body when the framing is looked at: a blank
\* line, a comment, a line that has something before data:, a content chunk,
\* the sentinel, the sentinel after two spaces, and the two halves of a
\* chunk sent as two data: lines.
FramingRaws ==
    { <<"\n">>,
      <<":", " ", "hb", "\n">>,
      <<" ", "data:", " ", "[DONE]", "\n">>,
      <<"data:", " ", DOC_HI, "\n">>,
      <<"data:", " ", "[DONE]", "\n">>,
      <<"data:", " ", " ", "[DONE]", "\n">>,
      <<"data:", " ", HI_HEAD, "\n">>,
      <<"data:", " ", HI_TAIL, "\n">> }

Bodies(raws, n) == UNION { [1..k -> raws] : k \in 0..n }

\* Status lines of a refused request, and the bodies that come with them.
ErrorStatuses ==
    { [code |-> 500, reason |-> "Internal Server Error", body |-> <<"server", " ", "overloaded">>],
      [code |-> 404, reason |-> "Not Found", body |-> << >>] }
OkStatus == [code |-> 200, reason |-> "OK", body |-> << >>]

\* Reasons urlopen gives for a URLError.
URLReasons == {"refused"}

\* The prompts typed into chat_input, and the system prompt (line 31).
Prompts == { <<"hello">> }
SYSTEM_PROMPT == <<"You are a helpful assistant. Be concise and clear in your responses.">>

TrimIdle ==
    /\ t_pc = "call"
    /\ t_messages = << >>
    /\ t_max_messages = 0
    /\ t_max_tokens = 0
    /\ t_result = << >>

\* ------------------------------------------------- stream_response: steps
\* The generator goes round its loop without yielding.
Continue ==
    UNCHANGED << pc, conn, delivered, emit_at, full_response, ending >>

\* Line 143 (yield content) and main's loop body, line 272.
YieldChunk(chunk) ==
    /\ delivered' = Append(delivered, chunk)
    /\ emit_at' = Append(emit_at, resp_pos + 1)
    /\ full_response' = full_response \o chunk
    /\ UNCHANGED << pc, conn, ending >>

\* The response read without a with block: return and break leave it open.
Return_leavesOpen(how) ==
    /\ pc' = "finished"
    /\ conn' = conn
    /\ ending' = how
    /\ UNCHANGED << delivered, emit_at, full_response >>

\* Line 132 (return) and line 120 (break): the with block closes the response.
Return(how) ==
    /\ pc' = "finished"
    /\ conn' = "closed"
    /\ ending' = how
    /\ UNCHANGED << delivered, emit_at, full_response >>

\* Lines 156-162: an exception leaves the with block (closing the response
\* if it was open), its handler yields one text and the generator ends.
Fail(fragment, how, at) ==
    /\ pc' = "finished"
    /\ conn' = (IF conn = "open" THEN "closed" ELSE conn)
    /\ ending' = how
    /\ delivered' = Append(delivered, fragment)
    /\ emit_at' = Append(emit_at, at)
    /\ full_response' = full_response \o fragment

\* The trimming done on the stored history itself: what the trimmer drops
\* is gone from st.session_state.messages.
ConnectOk_trimsHistory(bodies) ==
    /\ pc = "created"
    /\ request' = trim_conversation_history(
                      <<[role |-> "developer", content |-> SYSTEM_PROMPT]>> \o messages,
                      MAX_CONTEXT_MESSAGES, CONTEXT_WINDOW_TOKENS)
    /\ messages' = conversation_messages(request')
    /\ http_status' = OkStatus
    /\ resp_lines' \in bodies
    /\ pc' = "reading"
    /\ conn' = "open"
    /\ data_lines' = << >>
    /\ UNCHANGED << resp_pos, delivered, emit_at, full_response, ending >>
    /\ UNCHANGED << main_pc, turn, runs_log >>
    /\ UNCHANGED trimVars

\* Lines 85-114: the request is built from the trimmed messages and urlopen
\* answers with a 2xx status and a body, one of the given bodies.
ConnectOk(bodies) ==
    /\ pc = "created"
    /\ request' = trim_conversation_history(
                      <<[role |-> "developer", content |-> SYSTEM_PROMPT]>> \o messages,
                      MAX_CONTEXT_MESSAGES, CONTEXT_WINDOW_TOKENS)
    /\ http_status' = OkStatus
    /\ resp_lines' \in bodies
    /\ pc' = "reading"
    /\ conn' = "open"
    /\ data_lines' = << >>
    /\ UNCHANGED << resp_pos, delivered, emit_at, full_response, ending >>
    /\ UNCHANGED << messages, main_pc, turn, runs_log >>
    /\ UNCHANGED trimVars

\* Lines 113, 156-158: urlopen raises HTTPError for a status outside 2xx.
ConnectHTTPError(status) ==
    /\ pc = "created"
    /\ ~(200 <= status.code /\ status.code < 300)
    /\ request' = trim_conversation_history(
                      <<[role |-> "developer", content |-> SYSTEM_PROMPT]>> \o messages,
                      MAX_CONTEXT_MESSAGES, CONTEXT_WINDOW_TOKENS)
    /\ http_status' = status
    /\ Fail(HTTPErrorFragment(status.code, status.reason, status.body), "http_error", resp_pos)
    /\ UNCHANGED << resp_lines, resp_pos, data_lines >>
    /\ UNCHANGED << messages, main_pc, turn, runs_log >>
    /\ UNCHANGED trimVars

\* Lines 113, 159-160: urlopen raises URLError (refused, DNS, timeout).
ConnectURLError(reason) ==
    /\ pc = "created"
    /\ request' = trim_conversation_history(
                      <<[role |-> "developer", content |-> SYSTEM_PROMPT]>> \o messages,
                      MAX_CONTEXT_MESSAGES, CONTEXT_WINDOW_TOKENS)
    /\ Fail(URLErrorFragment(reason), "url_error", resp_pos)
    /\ UNCHANGED << http_status, resp_lines, resp_pos, data_lines >>
    /\ UNCHANGED << messages, main_pc, turn, runs_log >>
    /\ UNCHANGED trimVars

\* The loop body without data_lines.clear(): a dispatched event stays in the
\* accumulator.
ReadLine_keepsAccumulator ==
    /\ pc = "reading"
    /\ resp_pos < Len(resp_lines)
    /\ resp_pos' = resp_pos + 1
    /\ LET line    == DecodeLine(resp_lines[resp_pos + 1])
           payload == join("\n", data_lines)
           parsed  == json_loads(payload)
           outcome == IF parsed.ok THEN Extract(parsed.value) ELSE Skips
       IN  IF line = << >>
           THEN IF data_lines # << >>
                THEN /\ data_lines' = data_lines
                     /\ IF IsDone(payload) THEN Return("done")
                        ELSE CASE outcome.kind = "yield" -> YieldChunk(outcome.content)
                               [] outcome.kind = "skip"  -> Continue
                               [] outcome.kind = "raise" ->
                                    Fail(UnexpectedErrorFragment(outcome.exc), "payload_error",
                                         resp_pos + 1)
                ELSE /\ data_lines' = data_lines
                     /\ Continue
           ELSE IF StartsWith(line, ":")
                THEN /\ data_lines' = data_lines
                     /\ Continue
           ELSE IF StartsWith(line, "data:")
                THEN /\ data_lines' = Append(data_lines, DataValue(line))
                     /\ Continue
           ELSE /\ data_lines' = data_lines
                /\ Continue
    /\ UNCHANGED << request, http_status, resp_lines >>
    /\ UNCHANGED << messages, main_pc, turn, runs_log >>
    /\ UNCHANGED trimVars

\* Lines 118-154: readline returns a line and the loop body handles it.
ReadLine ==
    /\ pc = "reading"
    /\ resp_pos < Len(resp_lines)
    /\ resp_pos' = resp_pos + 1
    /\ LET line    == DecodeLine(resp_lines[resp_pos + 1])
           payload == join("\n", data_lines)
           parsed  == json_loads(payload)
           outcome == IF parsed.ok THEN Extract(parsed.value) ELSE Skips
       IN  IF line = << >>
           THEN IF data_lines # << >>
                THEN /\ data_lines' = << >>
                     /\ IF IsDone(payload) THEN Return("done")
                        ELSE CASE outcome.kind = "yield" -> YieldChunk(outcome.content)
                               [] outcome.kind = "skip"  -> Continue
                               [] outcome.kind = "raise" ->
                                    Fail(UnexpectedErrorFragment(outcome.exc), "payload_error",
                                         resp_pos + 1)
                ELSE /\ data_lines' = data_lines
                     /\ Continue
           ELSE IF StartsWith(line, ":")
                THEN /\ data_lines' = data_lines
                     /\ Continue
           ELSE IF StartsWith(line, "data:")
                THEN /\ data_lines' = Append(data_lines, DataValue(line))
                     /\ Continue
           ELSE /\ data_lines' = data_lines
                /\ Continue
    /\ UNCHANGED << request, http_status, resp_lines >>
    /\ UNCHANGED << messages, main_pc, turn, runs_log >>
    /\ UNCHANGED trimVars

\* Lines 118-120: readline returns b"" (the connection closed) and the loop
\* is left; nothing is done with data_lines.
ReadEOF ==
    /\ pc = "reading"
    /\ resp_pos = Len(resp_lines)
    /\ Return("closed")
    /\ UNCHANGED << request, http_status, resp_lines, resp_pos, data_lines >>
    /\ UNCHANGED << messages, main_pc, turn, runs_log >>
    /\ UNCHANGED trimVars

\* Lines 118, 161-162: readline raises (the 30 s timeout, a reset).
ReadError ==
    /\ pc = "reading"
    /\ Fail(UnexpectedErrorFragment("timed out"), "read_error", resp_pos + 1)
    /\ UNCHANGED << request, http_status, resp_lines, resp_pos, data_lines >>
    /\ UNCHANGED << messages, main_pc, turn, runs_log >>
    /\ UNCHANGED trimVars

\* ------------------------------------------------------------------- main
\* The system prompt kept in the history as its first entry.
Submit_storesSystemPrompt(prompt) ==
    /\ main_pc = "idle"
    /\ turn < MaxTurns
    /\ messages' = Append(IF messages = << >>
                           THEN <<[role |-> "developer", content |-> SYSTEM_PROMPT]>>
                           ELSE messages,
                           [role |-> "user", content |-> prompt])
    /\ main_pc' = "streaming"
    /\ full_response' = << >>
    /\ turn' = turn + 1
    /\ pc' = "created"
    /\ request' = << >>
    /\ conn' = "none"
    /\ data_lines' = << >>
    /\ http_status' = NoStatus
    /\ resp_lines' = << >>
    /\ resp_pos' = 0
    /\ delivered' = << >>
    /\ emit_at' = << >>
    /\ ending' = "none"
    /\ UNCHANGED runs_log
    /\ UNCHANGED trimVars

\* Lines 252-271: a prompt is entered, appended to the history, and the
\* generator is created.
Submit(prompt) ==
    /\ main_pc = "idle"
    /\ turn < MaxTurns
    /\ messages' = Append(messages, [role |-> "user", content |-> prompt])
    /\ main_pc' = "streaming"
    /\ full_response' = << >>
    /\ turn' = turn + 1
    /\ pc' = "created"
    /\ request' = << >>
    /\ conn' = "none"
    /\ data_lines' = << >>
    /\ http_status' = NoStatus
    /\ resp_lines' = << >>
    /\ resp_pos' = 0
    /\ delivered' = << >>
    /\ emit_at' = << >>
    /\ ending' = "none"
    /\ UNCHANGED runs_log
    /\ UNCHANGED trimVars

\* Lines 276-285: the generator is exhausted; the reply goes into the
\* history unless it is empty or starts with the cross mark.
Finish ==
    /\ main_pc = "streaming"
    /\ pc = "finished"
    /\ messages' = (IF full_response # << >> /\ ~StartsWith(full_response, CROSS)
                    THEN Append(messages, [role |-> "assistant", content |-> full_response])
                    ELSE messages)
    /\ main_pc' = "idle"
    /\ pc' = "none"
    /\ runs_log' = runs_log \cup {[delivered |-> delivered, ending |-> ending]}
    /\ UNCHANGED << full_response, turn, request, conn, data_lines, http_status,
                    resp_lines, resp_pos, delivered, emit_at, ending >>
    /\ UNCHANGED trimVars

\* Lines 270-281 and 113, 143: the loop body raises while the generator is
\* suspended at the yield of line 143 (the placeholder cannot be drawn); the
\* for statement is left, the generator is closed, GeneratorExit leaves the
\* with block and the response is closed; main's handler puts its own text
\* in full_response and nothing goes into the history.
Abandon ==
    /\ main_pc = "streaming"
    /\ pc = "reading"
    /\ emit_at # << >>
    /\ emit_at[Len(emit_at)] = resp_pos
    /\ pc' = "none"
    /\ conn' = "closed"
    /\ ending' = "abandoned"
    /\ full_response' = <<CROSS, " ", "Error:", " ", "render failed">>
    /\ main_pc' = "idle"
    /\ runs_log' = runs_log \cup {[delivered |-> delivered, ending |-> "abandoned"]}
    /\ UNCHANGED << messages, turn, request, data_lines, http_status, resp_lines,
                    resp_pos, delivered, emit_at >>
    /\ UNCHANGED trimVars

\* Lines 221-223: the Clear Conversation button.
Clear ==
    /\ main_pc = "idle"
    /\ messages # << >>
    /\ messages' = << >>
    /\ UNCHANGED << main_pc, full_response, turn, pc, request, conn, data_lines,
                    http_status, resp_lines, resp_pos, delivered, emit_at, ending,
                    runs_log >>
    /\ UNCHANGED trimVars

\* ---- the chat session
Init == TrimIdle /\ ChatIdle

Next ==
    \/ \E prompt \in Prompts : Submit(prompt)
    \/ ConnectOk(Bodies(ChatRaws, MaxChatLines))
    \/ \E status \in ErrorStatuses : ConnectHTTPError(status)
    \/ \E reason \in URLReasons : ConnectURLError(reason)
    \/ ReadLine
    \/ ReadEOF
    \/ ReadError
    \/ Finish
    \/ Abandon
    \/ Clear

Spec == Init /\ [][Next]_vars

\* ---- the chat session, taken up after MAX_CONTEXT_MESSAGES / 2 turns that
\* each got the reply Hi from the body "data: <chunk>", blank line: the
\* history is as long as the count limit, so the next request is trimmed.
\* turn counts the prompts from here on.
LongHistory ==
    [i \in 1..MAX_CONTEXT_MESSAGES |->
        IF i % 2 = 1 THEN [role |-> "user", content |-> <<"hello">>]
        ELSE [role |-> "assistant", content |-> <<"Hi">>]]

InitLongChat ==
    /\ TrimIdle
    /\ messages = LongHistory
    /\ main_pc = "idle"
    /\ full_response = <<"Hi">>
    /\ turn = 0
    /\ pc = "none"
    /\ request = <<[role |-> "developer", content |-> SYSTEM_PROMPT]>>
                    \o SubSeq(LongHistory, 1, MAX_CONTEXT_MESSAGES - 1)
    /\ conn = "closed"
    /\ data_lines = << >>
    /\ http_status = OkStatus
    /\ resp_lines = << <<"data:", " ", DOC_HI, "\n">>, <<"\n">> >>
    /\ resp_pos = 2
    /\ delivered = << <<"Hi">> >>
    /\ emit_at = <<2>>
    /\ ending = "closed"
    /\ runs_log = {[delivered |-> << <<"Hi">> >>, ending |-> "closed"]}

SpecLongChat == InitLongChat /\ [][Next]_vars

\* ---- one call of stream_response, on every response body
InitDecode ==
    /\ TrimIdle
    /\ messages = <<[role |-> "user", content |-> <<"hello">>]>>
    /\ main_pc = "streaming"
    /\ full_response = << >>
    /\ turn = 1
    /\ pc = "created"
    /\ request = << >>
    /\ conn = "none"
    /\ data_lines = << >>
    /\ http_status = NoStatus
    /\ resp_lines = << >>
    /\ resp_pos = 0
    /\ delivered = << >>
    /\ emit_at = << >>
    /\ ending = "none"
    /\ runs_log = {}

NextDecode ==
    \/ ConnectOk(Bodies(DecodeRaws, MaxLines))
    \/ \E status \in ErrorStatuses : ConnectHTTPError(status)
    \/ \E reason \in URLReasons : ConnectURLError(reason)
    \/ ReadLine
    \/ ReadEOF
    \/ ReadError
    \/ Finish

SpecDecode == InitDecode /\ [][NextDecode]_vars

\* ---- one call of stream_response, on the bodies that exercise the framing
NextFraming ==
    \/ ConnectOk(Bodies(FramingRaws, MaxLines))
    \/ \E status \in ErrorStatuses : ConnectHTTPError(status)
    \/ \E reason \in URLReasons : ConnectURLError(reason)
    \/ ReadLine
    \/ ReadEOF
    \/ ReadError
    \/ Finish

SpecFraming == InitDecode /\ [][NextFraming]_vars

\* ------------------------------------------------------ claims: the decoder
\* The events of a line sequence, as the SSE framing defines them: the event
\* closed by the blank line i is made of the data: lines since the blank line
\* before it; it is dispatched when it has at least one.
DecodedLines == [i \in 1..Len(resp_lines) |-> DecodeLine(resp_lines[i])]

IsDataLine(line) == StartsWith(line, "data:")

RECURSIVE DataValues(_)
DataValues(lines) ==
    IF lines = << >> THEN << >>
    ELSE <<DataValue(Head(lines))>> \o DataValues(Tail(lines))

\* The last blank line before line i (0 when there is none).
PrevBlank(lines, i) ==
    LET blanks == { j \in 1..(i - 1) : lines[j] = << >> }
    IN  IF blanks = {} THEN 0 ELSE CHOOSE j \in blanks : \A m \in blanks : m <= j

\* The payload of the lines after the last blank line before i, up to i - 1.
PayloadBefore(lines, i) ==
    join("\n", DataValues(SelectSeq(SubSeq(lines, PrevBlank(lines, i) + 1, i - 1),
                                    IsDataLine)))

HasData(lines, i) ==
    \E j \in (PrevBlank(lines, i) + 1)..(i - 1) : IsDataLine(lines[j])

IsBoundary(lines, i) == lines[i] = << >> /\ HasData(lines, i)

\* The first boundary whose payload is [DONE] (Len + 1 when there is none).
FirstDone(lines) ==
    LET dones == { i \in 1..Len(lines) :
                     IsBoundary(lines, i) /\ PayloadBefore(lines, i) = <<"[DONE]">> }
    IN  IF dones = {} THEN Len(lines) + 1
        ELSE CHOOSE i \in dones : \A m \in dones : i <= m

\* The payload is a JSON object with choices[0].delta.content a non-empty str.
HasContent(payload) ==
    LET p == json_loads(payload)
    IN  /\ p.ok
        /\ p.value.t = "dict"
        /\ "choices" \in DOMAIN p.value.fields
        /\ p.value.fields.choices.t = "list"
        /\ Len(p.value.fields.choices.items) > 0
        /\ p.value.fields.choices.items[1].t = "dict"
        /\ "delta" \in DOMAIN p.value.fields.choices.items[1].fields
        /\ p.value.fields.choices.items[1].fields.delta.t = "dict"
        /\ "content" \in DOMAIN p.value.fields.choices.items[1].fields.delta.fields
        /\ p.value.fields.choices.items[1].fields.delta.fields.content.t = "str"
        /\ p.value.fields.choices.items[1].fields.delta.fields.content.s # << >>

ContentOf(payload) ==
    json_loads(payload).value.fields.choices.items[1].fields.delta.fields.content.s

\* Fragment k of the call is the content of the event closed by line emit_at[k].
IsEventContent(lines, k) ==
    /\ emit_at[k] \in 1..Len(lines)
    /\ IsBoundary(lines, emit_at[k])
    /\ HasContent(PayloadBefore(lines, emit_at[k]))
    /\ delivered[k] = ContentOf(PayloadBefore(lines, emit_at[k]))

TransportErrors == {"http_error", "url_error", "read_error"}
NormalEndings == {"done", "closed"}

\* C1: in every line sequence the transport delivers whole, each event before
\* any [DONE] event whose payload is a JSON object with a non-empty
\* choices[0].delta.content = s makes the decoder emit exactly one fragment,
\* equal to s, and fragments come in the order of their events.
C1_EveryContentEventEmitted ==
    (ending # "none" /\ ending \notin TransportErrors)
        => LET lines == DecodedLines
           IN  /\ \A i \in 1..Len(lines) :
                     (/\ i < FirstDone(lines)
                      /\ IsBoundary(lines, i)
                      /\ HasContent(PayloadBefore(lines, i)))
                        => /\ Cardinality({ k \in DOMAIN emit_at : emit_at[k] = i }) = 1
                           /\ \A k \in DOMAIN emit_at :
                                 emit_at[k] = i => IsEventContent(lines, k)
               /\ \A k \in DOMAIN emit_at : \A m \in DOMAIN emit_at :
                     k < m => emit_at[k] < emit_at[m]

\* C2: once the line that closes the first [DONE] event has been read, the
\* call has ended normally at that line: no line after it is read, the
\* response is closed, and every fragment delivered is the content of an
\* event before it (none for the [DONE] event, none after it, no error text).
C2_DoneStopsDecoding ==
    LET lines == DecodedLines
    IN  (FirstDone(lines) <= Len(lines) /\ resp_pos >= FirstDone(lines))
            => /\ ending = "done"
               /\ pc \in {"finished", "none"}
               /\ conn = "closed"
               /\ resp_pos = FirstDone(lines)
               /\ \A k \in DOMAIN emit_at :
                     emit_at[k] < FirstDone(lines) /\ IsEventContent(lines, k)

\* A call that ended at [DONE] and was consumed while a content event was
\* still unread behind the sentinel.
C2_Witness ==
    /\ ending = "done"
    /\ pc = "none"
    /\ \E i \in (resp_pos + 1)..Len(resp_lines) :
          /\ IsBoundary(DecodedLines, i)
          /\ HasContent(PayloadBefore(DecodedLines, i))

\* C3: when the connection closes while data lines of a still-open event are
\* accumulated, they are processed as at a boundary: an open event whose
\* payload carries a non-empty content yields it as the last fragment.
C3_FlushOnClose ==
    LET lines == DecodedLines
        n     == Len(lines) + 1
    IN  (/\ ending = "closed"
         /\ HasData(lines, n)
         /\ HasContent(PayloadBefore(lines, n)))
            => /\ delivered # << >>
               /\ delivered[Len(delivered)] = ContentOf(PayloadBefore(lines, n))
               /\ emit_at[Len(emit_at)] > PrevBlank(lines, n)

\* C7: an event whose payload is not a usable chunk (not JSON, or JSON
\* without a non-empty choices[0].delta.content) is skipped: nothing is
\* emitted for it, no error text either, and the call does not end on it.
C7_UnusableEventSkipped ==
    LET lines == DecodedLines
    IN  /\ ending # "payload_error"
        /\ \A i \in 1..resp_pos :
              (/\ IsBoundary(lines, i)
               /\ PayloadBefore(lines, i) # <<"[DONE]">>
               /\ ~HasContent(PayloadBefore(lines, i)))
                 => \A k \in DOMAIN emit_at : emit_at[k] # i

\* C8: a status outside 2xx surfaces as exactly one result, which holds the
\* status code and the body text; it ends the call, no line is read, no
\* content is emitted, and the generator ends without raising.
C8_HTTPErrorIsOneTerminalResult ==
    (http_status # NoStatus /\ ~(200 <= http_status.code /\ http_status.code < 300))
        => /\ ending = "http_error"
           /\ pc \in {"finished", "none"}
           /\ resp_pos = 0
           /\ Len(delivered) = 1
           /\ StartsWith(delivered[1], CROSS)
           /\ Occurs(ToString(http_status.code), delivered[1])
           /\ ContainsText(delivered[1], http_status.body)
           /\ full_response = delivered[1]

\* The HTTP 500 with the body "server overloaded", consumed by the caller.
C8_Witness ==
    /\ http_status.code = 500
    /\ http_status.body = <<"server", " ", "overloaded">>
    /\ pc = "none"
    /\ main_pc = "idle"

\* C9: a turn whose stream ends in a transport or HTTP error, before or
\* after fragments were emitted, leaves the history as it was: no assistant
\* message is appended and no entry is changed.
C9_ErrorTurnKeepsHistory ==
    [][(main_pc = "streaming" /\ main_pc' = "idle" /\ ending \in TransportErrors)
          => messages' = messages]_vars

\* C10: no call that ended normally and no call that ended in a transport or
\* HTTP error delivered the same sequence of fragments.
C10_EndingsDistinguishable ==
    \A a \in runs_log : \A b \in runs_log :
        (a.ending \in NormalEndings /\ b.ending \in TransportErrors)
            => a.delivered # b.delivered

\* ------------------------------------------------------ claims: the framing
\* A data: line, and a line that is neither blank nor a data: line (a
\* comment, another field, anything else), told by the first characters.
BeginsWithData(line) == line # << >> /\ Head(line) = "data:"

IsIgnoredLine(line) == line # << >> /\ ~BeginsWithData(line)

\* C11: reading a comment line or any other non-empty line that does not
\* begin with data: changes neither the accumulator nor anything the call
\* has put out, and does not end the call: the decoder is after the line in
\* the state it was in before it, so such a line put in or taken out at any
\* position leaves the fragments and the place where the call ends as they
\* are.
C11_IgnoredLinesChangeNothing ==
    [][ ( /\ pc = "reading"
          /\ resp_pos' = resp_pos + 1
          /\ IsIgnoredLine(DecodedLines[resp_pos + 1]) )
        => ( /\ pc' = "reading"
             /\ UNCHANGED << data_lines, delivered, emit_at, full_response,
                             ending, conn >> ) ]_vars

\* An ignored line stood between the two data: lines of an event, and the
\* event has put out its fragment.
C11_Witness ==
    \E k \in 1..Len(emit_at) : \E j \in 2..(emit_at[k] - 2) :
        /\ emit_at[k] <= resp_pos
        /\ IsIgnoredLine(DecodedLines[j])
        /\ BeginsWithData(DecodedLines[j - 1])
        /\ BeginsWithData(DecodedLines[j + 1])
        /\ delivered[k] = <<"Hi">>

\* The values of the data: lines of the event closed by line i, in the order
\* of the lines, and a list of values written out with one newline between
\* each two of them.
EventValues(lines, i) ==
    DataValues(SelectSeq(SubSeq(lines, PrevBlank(lines, i) + 1, i - 1), BeginsWithData))

RECURSIVE WithNewlines(_)
WithNewlines(values) ==
    IF values = << >> THEN << >>
    ELSE IF Len(values) = 1 THEN values[1]
    ELSE values[1] \o <<"\n">> \o WithNewlines(Tail(values))

\* C12: the payload of an event is the values of its data: lines, in the
\* order they came, with a single newline between them, and the decoder acts
\* on that text: the call ends with 'done' at a blank line exactly when that
\* text is [DONE] (so not when [DONE] is one of several data: lines of the
\* event), a fragment is put out when that text is JSON with a content, and
\* none when that text is not JSON.
C12_PayloadIsJoinedDataLines ==
    LET lines == DecodedLines
    IN  \A i \in 1..resp_pos :
            (lines[i] = << >> /\ EventValues(lines, i) # << >>)
                => LET payload == WithNewlines(EventValues(lines, i))
                   IN  /\ (payload = <<"[DONE]">>) <=> (ending = "done" /\ resp_pos = i)
                       /\ HasContent(payload)
                            => \E k \in DOMAIN emit_at :
                                  emit_at[k] = i /\ delivered[k] = ContentOf(payload)
                       /\ (~json_loads(payload).ok /\ payload # <<"[DONE]">>)
                            => \A k \in DOMAIN emit_at : emit_at[k] # i

\* An event of two data: lines, each half of a JSON text, has put out the
\* content of the joined text.
C12_Witness ==
    \E k \in DOMAIN emit_at :
        /\ emit_at[k] \in 1..resp_pos
        /\ Len(EventValues(DecodedLines, emit_at[k])) = 2
        /\ ~json_loads(EventValues(DecodedLines, emit_at[k])[1]).ok
        /\ ~json_loads(EventValues(DecodedLines, emit_at[k])[2]).ok
        /\ delivered[k] = <<"Hi">>

\* The rest of a data: line after the prefix, less one leading space when
\* there is one.
ValueLessOneSpace(line) ==
    LET rest == DropChars(line, 5)
    IN  IF rest # << >> /\ Head(rest) = " " THEN Tail(rest) ELSE rest

RECURSIVE ValuesLessOneSpace(_)
ValuesLessOneSpace(lines) ==
    IF lines = << >> THEN << >>
    ELSE <<ValueLessOneSpace(Head(lines))>> \o ValuesLessOneSpace(Tail(lines))

\* C13: the value a data: line adds to the accumulator is the rest of the
\* line after the prefix with exactly one leading space removed when there is
\* one, any further leading whitespace kept: while the call reads, the
\* accumulator holds these values of the data: lines read since the last
\* blank line.
C13_ValueLosesOneSpace ==
    pc = "reading"
        => data_lines =
             ValuesLessOneSpace(SelectSeq(SubSeq(DecodedLines,
                                                 PrevBlank(DecodedLines, resp_pos + 1) + 1,
                                                 resp_pos),
                                          BeginsWithData))

\* ------------------------------------------- claims: the trimmer, continued
\* The sum over the messages of floor(len(content) / 4).
RECURSIVE SumOfQuarters(_)
SumOfQuarters(msgs) ==
    IF msgs = << >> THEN 0
    ELSE (StrLen(Head(msgs).content) \div 4) + SumOfQuarters(Tail(msgs))

\* The conversation messages the count step hands to the token step, and
\* how many of them the token step took off.
KeptByCount == CountTrim(conversation_messages(t_messages), t_max_messages)
DroppedByTokens == Len(KeptByCount) - Len(conversation_messages(t_result))

\* C14: on return either the total of the returned list is within
\* max_tokens or at most 2 conversation messages remain; the token step
\* takes conversation messages off only from the oldest end, two at a time,
\* no more than the count step kept (the loop ends after at most half as
\* many rounds), and each pair only when the total was above max_tokens and
\* more than 2 were left; an input within both limits comes back with its
\* conversation unchanged.
C14_TokenStepDropsOldestPairs ==
    (t_pc = "returned" /\ t_messages # << >>)
         => LET sys  == system_messages(t_messages)
                kept == KeptByCount
                out  == conversation_messages(t_result)
                d    == DroppedByTokens
            IN  /\ SumOfQuarters(t_result) <= t_max_tokens \/ Len(out) <= 2
                /\ d \in 0..Len(kept)
                /\ d % 2 = 0
                /\ out = SubSeq(kept, d + 1, Len(kept))
                /\ \A e \in 0..(d - 1) :
                      e % 2 = 0
                        => /\ SumOfQuarters(sys \o SubSeq(kept, e + 1, Len(kept)))
                                > t_max_tokens
                           /\ Len(kept) - e > 2
                /\ ( /\ Len(conversation_messages(t_messages)) <= t_max_messages
                     /\ SumOfQuarters(t_messages) <= t_max_tokens )
                      => out = conversation_messages(t_messages)

\* The count step kept four messages, the token step took the oldest pair
\* off, and the two that are left are still above max_tokens.
C14_Witness ==
    /\ t_pc = "returned"
    /\ Len(KeptByCount) = 4
    /\ DroppedByTokens = 2
    /\ SumOfQuarters(t_result) > t_max_tokens

\* C15: between lines the decoder carries the accumulator and nothing else:
\* it is empty right after every blank line, and while the call reads it
\* holds the values of the data: lines read since the last blank line; a
\* fragment comes only from a blank line that closes an event with data:
\* lines and is the content of the payload of those lines (a blank line with
\* an empty accumulator puts out nothing); no line puts out two fragments.
C15_AccumulatorIsTheOnlyState ==
    LET lines == DecodedLines
    IN  /\ (resp_pos >= 1 /\ lines[resp_pos] = << >>) => data_lines = << >>
        /\ pc = "reading" => data_lines = EventValues(lines, resp_pos + 1)
        /\ \A k \in DOMAIN emit_at :
              emit_at[k] \in 1..resp_pos
                => /\ lines[emit_at[k]] = << >>
                   /\ EventValues(lines, emit_at[k]) # << >>
                   /\ \/ /\ HasContent(WithNewlines(EventValues(lines, emit_at[k])))
                         /\ delivered[k] =
                              ContentOf(WithNewlines(EventValues(lines, emit_at[k])))
                      \/ ending = "payload_error" /\ k = Len(emit_at)
        /\ \A k \in DOMAIN emit_at : \A m \in DOMAIN emit_at :
              k # m => emit_at[k] # emit_at[m]

\* An event has been dispatched and has put out its one fragment, and the
\* blank line read right after it, with the accumulator empty, has put out
\* nothing.
C15_Witness ==
    /\ pc = "reading"
    /\ resp_pos >= 3
    /\ DecodedLines[resp_pos] = << >>
    /\ EventValues(DecodedLines, resp_pos) = << >>
    /\ emit_at = <<resp_pos - 1>>
    /\ data_lines = << >>

\* ------------------------------------------------- claims: the chat session
\* The state the step leads to has no response left open once the generator
\* has ended or has been closed by the caller.
ReleasedWhenOver == pc \in {"none", "finished"} => conn # "open"

\* C16: a turn makes one request on one connection (a response is opened
\* only by a generator that has not opened one, the request is built only
\* then, and a generator is created only by a new turn, when main is idle
\* and no response is open, so two turns never read their streams in turn);
\* an assistant message goes into the history only after the stream has
\* reached an end and the response is closed; whenever the generator is over,
\* by any ending or by the caller abandoning it mid-stream, the response has
\* been closed.
C16_OneStreamPerTurnReleased ==
    [][ /\ (conn' = "open" /\ conn # "open") => (pc = "created" /\ conn = "none")
        /\ request' # request => (pc = "created" \/ pc' = "created")
        /\ (pc' = "created" /\ pc # "created")
             => (turn' = turn + 1 /\ main_pc = "idle" /\ conn # "open")
        /\ ( /\ Len(messages') > Len(messages)
             /\ messages'[Len(messages')].role = "assistant" )
             => (pc = "finished" /\ ending # "none" /\ conn # "open")
        /\ ReleasedWhenOver' ]_vars

\* The caller has abandoned the generator after a fragment, before the
\* stream had reached an end, and the response is closed.
C16_Witness ==
    /\ ending = "abandoned"
    /\ delivered = << <<"Hi">> >>
    /\ conn = "closed"
    /\ main_pc = "idle"

\* The history holds user and assistant messages only, does not begin with
\* an assistant message, and has a user message right before every
\* assistant message.
HistoryWellFormed ==
    \A i \in 1..Len(messages) :
        /\ messages[i].role \in {"user", "assistant"}
        /\ messages[i].role = "assistant" => (i > 1 /\ messages[i - 1].role = "user")

\* C17: after any turns (with a reply, failed, with an empty reply) and
\* Clear actions the history is well formed, and a step changes it only by
\* emptying it (Clear, between turns) or by appending one message: the user
\* message when the turn begins, then at most one assistant message, right
\* after that user message, when the turn ends.
C17_HistoryOnlyGrowsByTurns ==
    [][ /\ HistoryWellFormed'
        /\ \/ messages' = messages
           \/ messages' = << >> /\ main_pc = "idle" /\ main_pc' = "idle"
           \/ /\ main_pc = "idle" /\ main_pc' = "streaming"
              /\ \E prompt \in Prompts :
                    messages' = Append(messages, [role |-> "user", content |-> prompt])
           \/ /\ main_pc = "streaming" /\ main_pc' = "idle"
              /\ messages # << >>
              /\ messages[Len(messages)].role = "user"
              /\ Len(messages') = Len(messages) + 1
              /\ SubSeq(messages', 1, Len(messages)) = messages
              /\ messages'[Len(messages')].role = "assistant" ]_vars

\* A turn that left no reply was followed by a turn with a reply: two user
\* messages in a row, then the assistant message.
C17_Witness ==
    /\ main_pc = "idle"
    /\ Len(messages) = 3
    /\ messages[1].role = "user"
    /\ messages[2].role = "user"
    /\ messages[3].role = "assistant"

\* ------------------------------------------- claims: what the request holds
\* C18: when the input has a conversation message and max_messages is not
\* negative, whatever max_tokens is, the returned list is not empty and its
\* last element is the last conversation message of the input (so the
\* request of a turn, built from the history that ends with the prompt just
\* entered, holds that prompt).
C18_LatestMessageKept ==
    ( /\ t_pc = "returned"
      /\ conversation_messages(t_messages) # << >>
      /\ t_max_messages >= 0 )
        => /\ t_result # << >>
           /\ t_result[Len(t_result)] =
                conversation_messages(t_messages)[Len(conversation_messages(t_messages))]

\* The count step has taken messages off, the input ends with a retained
\* message, and the last element returned is the last conversation message.
C18_Witness ==
    /\ t_pc = "returned"
    /\ t_max_messages >= 2
    /\ Len(conversation_messages(t_messages)) > Len(KeptByCount)
    /\ IsRetained(t_messages[Len(t_messages)])
    /\ t_result[Len(t_result)] =
         conversation_messages(t_messages)[Len(conversation_messages(t_messages))]

\* C19: trimming touches the request only: the step that trims the messages
\* and builds the request leaves the stored history, and every message in
\* it, as it was, also when the request comes out shorter than the history;
\* no step takes entries out of a history that stays non-empty (the stored
\* history only grows, until Clear empties it).
C19_TrimLeavesHistory ==
    [][ /\ (pc = "created" /\ pc' # "created") => messages' = messages
        /\ (messages' # messages /\ messages' # << >>)
             => /\ Len(messages') > Len(messages)
                /\ SubSeq(messages', 1, Len(messages)) = messages ]_vars

\* The request of the turn has been built and holds fewer conversation
\* messages than the stored history, which is whole and ends with the prompt.
C19_Witness ==
    /\ pc = "reading"
    /\ Len(messages) = MAX_CONTEXT_MESSAGES + 1
    /\ SubSeq(messages, 1, MAX_CONTEXT_MESSAGES) = LongHistory
    /\ Len(conversation_messages(request)) < Len(messages)
    /\ request[Len(request)] = messages[Len(messages)]

====
